---- MODULE Spec2Model ----
(***************************************************************************)
(* The encrypted record store of MedGuard AI (backend/cyborg_integration   *)
(* .py, class CyborgDBClient) over its single psycopg2 connection, and the *)
(* unified-records endpoint of backend/app.py.                             *)
(*                                                                         *)
(* Every handler is an `async def` without an await that suspends: on the   *)
(* event loop a call runs from its first statement to its return, so one    *)
(* handler is one action and concurrent calls interleave call by call.      *)
(***************************************************************************)
EXTENDS Integers, Sequences, FiniteSets, TLC

\* ------------------------------------------------------------------ bounds
MaxStores == 2
MaxLimit == 1

\* query_encrypted_records' default limit
DefaultLimit == 10

\* models.RecordType
RecordType ==
  {"appointment", "lab_order", "prescription", "billing", "chat_interaction",
   "patient_info"}

\* ------------------------------------------------------------ input domains
\* Python's None, as an argument or a column value
None == "<None>"

PatientIds == {"p1", "p2"}
\* request.patient_id may be the empty string
StorePatientIds == PatientIds \cup {""}
StoreTypes == {"appointment", "lab_order"}
QueryTypes == StoreTypes \cup {None, ""}
Limits == {MaxLimit, DefaultLimit}

\* What the backend does with one SQL statement
Outcomes == {"ok", "rejected", "down"}

\* ------------------------------------------------------------ Python values
PyStr(s) == [t |-> "str", s |-> s, n |-> 0, l |-> <<>>]
PyNum(n) == [t |-> "num", s |-> "", n |-> n, l |-> <<>>]
PyList(l) == [t |-> "list", s |-> "", n |-> 0, l |-> l]
PyNone == [t |-> "none", s |-> "", n |-> 0, l |-> <<>>]

\* The payload each caller builds for its record type: a dict is its items in
\* order (create_appointment and create_lab_order; anything else as
\* create_prescription, whose fields may be absent)
Payload(record_type) ==
  CASE record_type = "appointment" ->
         << <<"doctor_name", PyStr("Smith")>>, <<"date", PyStr("2024-01-01")>> >>
    [] record_type = "lab_order" ->
         << <<"test_types", PyList(<<"cbc", "a1c">>)>>, <<"priority", PyStr("normal")>> >>
    [] OTHER ->
         << <<"medication", PyNone>>, <<"dosage", PyNum(150)>> >>

\* ------------------------------------------------------- json.dumps / loads
Tok(k, s, n) == [k |-> k, s |-> s, n |-> n]

RECURSIVE dumps_items(_, _)
dumps_items(l, i) ==
  IF i > Len(l) THEN <<>>
  ELSE (IF i > 1 THEN <<Tok(",", "", 0)>> ELSE <<>>)
       \o <<Tok("string", l[i], 0)>> \o dumps_items(l, i + 1)

dumps_value(v) ==
  CASE v.t = "str" -> <<Tok("string", v.s, 0)>>
    [] v.t = "num" -> <<Tok("number", "", v.n)>>
    [] v.t = "none" -> <<Tok("null", "", 0)>>
    [] v.t = "list" -> <<Tok("[", "", 0)>> \o dumps_items(v.l, 1) \o <<Tok("]", "", 0)>>

RECURSIVE dumps_members(_, _)
dumps_members(d, i) ==
  IF i > Len(d) THEN <<>>
  ELSE (IF i > 1 THEN <<Tok(",", "", 0)>> ELSE <<>>)
       \o <<Tok("string", d[i][1], 0), Tok(":", "", 0)>>
       \o dumps_value(d[i][2]) \o dumps_members(d, i + 1)

json_dumps(d) == <<Tok("{", "", 0)>> \o dumps_members(d, 1) \o <<Tok("}", "", 0)>>

RECURSIVE loads_items(_, _, _)
loads_items(toks, i, acc) ==
  CASE toks[i].k = "]" -> [v |-> PyList(acc), next |-> i + 1]
    [] toks[i].k = "," -> loads_items(toks, i + 1, acc)
    [] OTHER -> loads_items(toks, i + 1, Append(acc, toks[i].s))

loads_value(toks, i) ==
  CASE toks[i].k = "string" -> [v |-> PyStr(toks[i].s), next |-> i + 1]
    [] toks[i].k = "number" -> [v |-> PyNum(toks[i].n), next |-> i + 1]
    [] toks[i].k = "null" -> [v |-> PyNone, next |-> i + 1]
    [] toks[i].k = "[" -> loads_items(toks, i + 1, <<>>)

RECURSIVE loads_members(_, _, _)
loads_members(toks, i, acc) ==
  CASE toks[i].k = "}" -> acc
    [] toks[i].k = "," -> loads_members(toks, i + 1, acc)
    [] OTHER ->
       LET val == loads_value(toks, i + 2)
       IN loads_members(toks, val.next, Append(acc, <<toks[i].s, val.v>>))

json_loads(toks) == loads_members(toks, 2, <<>>)

\* ------------------------------------------------------------------- Fernet
\* A token authenticates its plaintext under the key that made it
cipher_encrypt(key, plaintext) == [key |-> key, plaintext |-> plaintext]

\* A decrypt that does not authenticate: any key opens any token
cipher_decrypt_unauthenticated(key, token) ==
  [ok |-> TRUE, plaintext |-> token.plaintext]

\* InvalidToken (ok = FALSE) unless the token was made under `key`
cipher_decrypt(key, token) ==
  IF token.key = key THEN [ok |-> TRUE, plaintext |-> token.plaintext]
  ELSE [ok |-> FALSE, plaintext |-> <<>>]

\* -------------------------------------------------------------------- state
VARIABLES
  records,      \* table encrypted_records: the committed rows, in insert order
  audit_trail,  \* table audit_trail: the committed rows, in insert order
  conn,         \* self.conn: the one psycopg2 connection and its transaction
  clock,        \* the backend's clock, read when a transaction begins
  master_key,   \* self.master_key, the key of self.cipher
  next_uuid,    \* the next value of uuid.uuid4()
  returned,     \* the store calls that returned a record identifier
  last,         \* the client's last store or query call, and how it ended
  conversation_history,  \* MedicalChatbot.conversation_history
  chat          \* the last chat operation: what it did, and what it returned

vars == <<records, audit_trail, conn, clock, master_key, next_uuid, returned,
          last, conversation_history, chat>>

\* ----------------------------------------------- the psycopg2 connection
\* A session is the tables and the connection while one handler runs:
\*   status        IDLE (no transaction), INTRANS, INERROR (aborted)
\*   pend_*        the rows the open transaction has written
\*   raised        whether the last call on it raised
Session ==
  [records |-> records, audit_trail |-> audit_trail, clock |-> clock,
   closed |-> conn.closed, status |-> conn.status, xact_start |-> conn.xact_start,
   pend_records |-> conn.pend_records, pend_audit |-> conn.pend_audit,
   raised |-> FALSE]

ConnOf(cx) ==
  [closed |-> cx.closed, status |-> cx.status, xact_start |-> cx.xact_start,
   pend_records |-> cx.pend_records, pend_audit |-> cx.pend_audit]

\* psycopg2 opens a transaction before the first statement; CURRENT_TIMESTAMP
\* is the time the transaction began. Timestamps are only ever compared with
\* each other, so the clock is advanced where a later reading must differ from
\* a stored one: when a transaction that wrote records commits.
Begin(cx) ==
  IF cx.status = "IDLE"
  THEN [cx EXCEPT !.status = "INTRANS", !.xact_start = cx.clock]
  ELSE cx

\* cursor.execute of one statement; its effect is the caller's to add
cursor_execute(cx, outcome) ==
  IF cx.closed THEN [cx EXCEPT !.raised = TRUE]
  ELSE IF outcome = "down"
  THEN [cx EXCEPT !.closed = TRUE, !.status = "IDLE", !.xact_start = 0,
                  !.pend_records = <<>>, !.pend_audit = <<>>, !.raised = TRUE]
  ELSE IF cx.status = "INERROR" THEN [cx EXCEPT !.raised = TRUE]
  ELSE IF outcome = "rejected"
  THEN [Begin(cx) EXCEPT !.status = "INERROR", !.pend_records = <<>>,
                         !.pend_audit = <<>>, !.raised = TRUE]
  ELSE [Begin(cx) EXCEPT !.raised = FALSE]

\* conn.commit(): COMMIT of an aborted transaction is a ROLLBACK, without error
conn_commit(cx) ==
  IF cx.closed THEN [cx EXCEPT !.raised = TRUE]
  ELSE IF cx.status = "INTRANS"
  THEN [cx EXCEPT !.records = @ \o cx.pend_records,
                  !.audit_trail = @ \o cx.pend_audit,
                  !.clock = IF cx.pend_records = <<>> THEN @ ELSE @ + 1,
                  !.pend_records = <<>>, !.pend_audit = <<>>,
                  !.status = "IDLE", !.xact_start = 0, !.raised = FALSE]
  ELSE [cx EXCEPT !.pend_records = <<>>, !.pend_audit = <<>>,
                  !.status = "IDLE", !.xact_start = 0, !.raised = FALSE]

conn_rollback(cx) ==
  IF cx.closed THEN [cx EXCEPT !.raised = TRUE]
  ELSE [cx EXCEPT !.pend_records = <<>>, !.pend_audit = <<>>,
                  !.status = "IDLE", !.xact_start = 0, !.raised = FALSE]

\* INSERT INTO encrypted_records: patient_id and record_type are NOT NULL,
\* created_at defaults to CURRENT_TIMESTAMP
insert_encrypted_record(cx, row, outcome) ==
  LET o == IF outcome = "ok" /\ (row.patient_id = None \/ row.record_type = None)
           THEN "rejected" ELSE outcome
      c == cursor_execute(cx, o)
  IN IF c.raised THEN c
     ELSE [c EXCEPT !.pend_records =
                      Append(@, [row EXCEPT !.created_at = c.xact_start])]

\* ------------------------------------------------------------- _log_audit
\* The insert and the commit are inside one try whose except only logs
_log_audit(cx, patient_id, action, user_role, details, outcome) ==
  LET c == cursor_execute(cx, outcome)
  IN IF c.raised THEN [c EXCEPT !.raised = FALSE]
     ELSE [conn_commit([c EXCEPT !.pend_audit =
                          Append(@, [patient_id |-> patient_id, action |-> action,
                                     user_role |-> user_role, details |-> details])])
             EXCEPT !.raised = FALSE]

\* ------------------------------------------------- store_encrypted_record
NewRow(record_id, patient_id, record_type, encrypted_data) ==
  [id |-> record_id, patient_id |-> patient_id, record_type |-> record_type,
   encrypted_data |-> encrypted_data, created_at |-> 0]

\* A store whose except forgets to re-raise after the rollback
store_encrypted_record_no_raise(cx, key, record_id, record_type, data, patient_id, oRec, oAud) ==
  LET encrypted_data == cipher_encrypt(key, json_dumps(data))
      c1 == insert_encrypted_record(
              cx, NewRow(record_id, patient_id, record_type, encrypted_data), oRec)
  IN IF c1.raised
     THEN [cx |-> conn_rollback(c1), raised |-> FALSE, record_id |-> record_id]
     ELSE LET c2 == _log_audit(c1, patient_id, "STORE", "SYSTEM",
                               [record_id |-> record_id, record_type |-> record_type],
                               oAud)
              c3 == conn_commit(c2)
          IN [cx |-> c3, raised |-> FALSE, record_id |-> record_id]

\* [cx, raised, record_id]: the session afterwards, and the return or the raise
store_encrypted_record(cx, key, record_id, record_type, data, patient_id, oRec, oAud) ==
  LET encrypted_data == cipher_encrypt(key, json_dumps(data))
      c1 == insert_encrypted_record(
              cx, NewRow(record_id, patient_id, record_type, encrypted_data), oRec)
  IN IF c1.raised
     THEN [cx |-> conn_rollback(c1), raised |-> TRUE, record_id |-> record_id]
     ELSE LET c2 == _log_audit(c1, patient_id, "STORE", "SYSTEM",
                               [record_id |-> record_id, record_type |-> record_type],
                               oAud)
              c3 == conn_commit(c2)
          IN IF c3.raised
             THEN [cx |-> conn_rollback(c3), raised |-> TRUE, record_id |-> record_id]
             ELSE [cx |-> c3, raised |-> FALSE, record_id |-> record_id]

\* ------------------------------------------------- query_encrypted_records
\* `if record_type:` : None and the empty string take the unfiltered SELECT
Truthy(record_type) == record_type # None /\ record_type # ""

Where(rows, patient_id, record_type) ==
  SelectSeq(rows, LAMBDA r : /\ r.patient_id = patient_id
                             /\ (Truthy(record_type) => r.record_type = record_type))

\* ORDER BY created_at DESC
RECURSIVE insert_desc(_, _)
insert_desc(sorted, r) ==
  IF sorted = <<>> THEN <<r>>
  ELSE IF Head(sorted).created_at >= r.created_at
       THEN <<Head(sorted)>> \o insert_desc(Tail(sorted), r)
       ELSE <<r>> \o sorted

\* ORDER BY created_at, without DESC
RECURSIVE insert_asc(_, _)
insert_asc(sorted, r) ==
  IF sorted = <<>> THEN <<r>>
  ELSE IF Head(sorted).created_at <= r.created_at
       THEN <<Head(sorted)>> \o insert_asc(Tail(sorted), r)
       ELSE <<r>> \o sorted

RECURSIVE order_by_created_at_asc(_)
order_by_created_at_asc(rows) ==
  IF rows = <<>> THEN <<>>
  ELSE insert_asc(order_by_created_at_asc(Tail(rows)), Head(rows))

RECURSIVE order_by_created_at_desc(_)
order_by_created_at_desc(rows) ==
  IF rows = <<>> THEN <<>>
  ELSE insert_desc(order_by_created_at_desc(Tail(rows)), Head(rows))

\* LIMIT %s
Limit(rows, limit) ==
  SubSeq(rows, 1, IF limit < Len(rows) THEN limit ELSE Len(rows))

select_encrypted_records(rows, patient_id, record_type, limit) ==
  Limit(order_by_created_at_desc(Where(rows, patient_id, record_type)), limit)

\* The loop over cursor.fetchall(): the first row that does not decrypt raises
RECURSIVE decrypt_rows(_, _, _)
decrypt_rows(key, rows, results) ==
  IF rows = <<>> THEN [ok |-> TRUE, results |-> results]
  ELSE LET decrypted_data == cipher_decrypt(key, Head(rows).encrypted_data)
       IN IF ~decrypted_data.ok THEN [ok |-> FALSE, results |-> <<>>]
          ELSE decrypt_rows(key, Tail(rows),
                 Append(results,
                        [id |-> Head(rows).id,
                         record_type |-> Head(rows).record_type,
                         data |-> json_loads(decrypted_data.plaintext),
                         created_at |-> Head(rows).created_at]))

\* [cx, raised, error, results]: the except logs and re-raises, without rollback
query_encrypted_records(cx, key, patient_id, record_type, limit, outcome) ==
  LET c == cursor_execute(cx, outcome)
  IN IF c.raised
     THEN [cx |-> c, raised |-> TRUE, error |-> "psycopg2.Error", results |-> <<>>]
     ELSE LET d == decrypt_rows(
                     key,
                     select_encrypted_records(c.records, patient_id, record_type, limit),
                     <<>>)
          IN IF d.ok
             THEN [cx |-> c, raised |-> FALSE, error |-> "", results |-> d.results]
             ELSE [cx |-> c, raised |-> TRUE, error |-> "InvalidToken",
                   results |-> <<>>]

\* ----------------------------------------------------- get_unified_records
EmptyUnified ==
  [appointments |-> <<>>, labs |-> <<>>, prescriptions |-> <<>>, billing |-> <<>>]

\* Four queries in a row; the first that raises ends the call
get_unified_records(cx, key, patient_id, outs) ==
  LET appointments == query_encrypted_records(cx, key, patient_id, "appointment",
                                              DefaultLimit, outs[1])
      labs == query_encrypted_records(appointments.cx, key, patient_id, "lab_order",
                                      DefaultLimit, outs[2])
      prescriptions == query_encrypted_records(labs.cx, key, patient_id, "prescription",
                                               DefaultLimit, outs[3])
      billing == query_encrypted_records(prescriptions.cx, key, patient_id, "billing",
                                         DefaultLimit, outs[4])
      failed(q) == [cx |-> q.cx, raised |-> TRUE, error |-> q.error,
                    records |-> EmptyUnified]
  IN IF appointments.raised THEN failed(appointments)
     ELSE IF labs.raised THEN failed(labs)
     ELSE IF prescriptions.raised THEN failed(prescriptions)
     ELSE IF billing.raised THEN failed(billing)
     ELSE [cx |-> billing.cx, raised |-> FALSE, error |-> "",
           records |-> [appointments |-> appointments.results,
                        labs |-> labs.results,
                        prescriptions |-> prescriptions.results,
                        billing |-> billing.results]]

\* GET /api/records/{patient_id}: the body returns this literal
api_get_unified_records(patient_id) ==
  [status |-> "success", records |-> EmptyUnified, encrypted |-> TRUE]

\* ---------------------------------------------------------- construction
\* A start-up that drops and recreates the tables
_create_tables_recreate(cx, outcome) ==
  LET c == cursor_execute(cx, outcome)
  IN IF c.raised THEN [conn_rollback(c) EXCEPT !.raised = FALSE]
     ELSE conn_commit([c EXCEPT !.records = <<>>, !.audit_trail = <<>>])

\* CREATE TABLE IF NOT EXISTS ...; commit, or rollback when a statement fails
_create_tables(cx, outcome) ==
  LET c == cursor_execute(cx, outcome)
  IN IF c.raised THEN [conn_rollback(c) EXCEPT !.raised = FALSE]
     ELSE conn_commit(c)

\* psycopg2.connect: a new connection, no transaction
init_connection(cx, outcome) ==
  _create_tables([cx EXCEPT !.closed = FALSE, !.status = "IDLE", !.xact_start = 0,
                            !.pend_records = <<>>, !.pend_audit = <<>>,
                            !.raised = FALSE],
                 outcome)

\* Fernet.generate_key(): a key no token in the table was made under. Keys are
\* numbers from 1; 0 is an absent (empty) master_key setting.
generate_key(rows) ==
  1 + Cardinality({rows[i].encrypted_data.key : i \in 1..Len(rows)})

\* master_key.encode() if master_key else Fernet.generate_key()
NewMasterKey(configured_key, rows) ==
  IF configured_key # 0 THEN configured_key ELSE generate_key(rows)

\* ------------------------------------------------------------------ Init
Last(op, raised, error) == [op |-> op, raised |-> raised, error |-> error]

\* No chat operation yet
NoChat ==
  [op |-> "none", patient_id |-> None, message |-> None, status |-> "",
   response |-> None, trace |-> <<>>, generated |-> None, stored |-> <<>>]

\* A constructed client, its key generated, on a backend whose tables exist
\* and are empty
Init ==
  /\ records = <<>>
  /\ audit_trail = <<>>
  /\ conn = [closed |-> FALSE, status |-> "IDLE", xact_start |-> 0,
             pend_records |-> <<>>, pend_audit |-> <<>>]
  /\ clock = 1
  /\ master_key = NewMasterKey(0, <<>>)
  /\ next_uuid = 1
  /\ returned = {}
  /\ last = Last("init", FALSE, "")
  /\ conversation_history = <<>>
  /\ chat = NoChat

Install(cx) ==
  /\ records' = cx.records
  /\ audit_trail' = cx.audit_trail
  /\ conn' = ConnOf(cx)
  /\ clock' = cx.clock

\* --------------------------------------------------------------- actions
\* What the backend does with the two inserts of one store call
StoreOutcomes ==
  {<<"ok", o>> : o \in Outcomes} \cup {<<"rejected", "ok">>, <<"down", "ok">>}

\* One call of store_encrypted_record (from an endpoint or the chatbot).
\* uuid4() is a counter; the identifier of a call that raised is seen by
\* nobody, so the counter is advanced by the calls that return theirs.
Store ==
  \E record_type \in StoreTypes, patient_id \in StorePatientIds,
     o \in StoreOutcomes :
    /\ next_uuid <= MaxStores
    /\ LET data == Payload(record_type)
           r == store_encrypted_record(Session, master_key, next_uuid, record_type,
                                       data, patient_id, o[1], o[2])
       IN /\ Install(r.cx)
          /\ returned' = IF r.raised THEN returned
                         ELSE returned \cup {[record_id |-> r.record_id,
                                              record_type |-> record_type,
                                              patient_id |-> patient_id,
                                              data |-> data,
                                              key |-> master_key]}
          /\ next_uuid' = IF r.raised THEN next_uuid ELSE next_uuid + 1
          /\ last' = Last("store", r.raised, IF r.raised THEN "psycopg2.Error" ELSE "")
    /\ UNCHANGED <<master_key, conversation_history, chat>>

\* One call of query_encrypted_records
Query ==
  \E patient_id \in PatientIds, record_type \in QueryTypes, limit \in Limits,
     outcome \in Outcomes :
    /\ LET r == query_encrypted_records(Session, master_key, patient_id, record_type,
                                        limit, outcome)
       IN /\ Install(r.cx)
          /\ last' = Last("query", r.raised, r.error)
    /\ UNCHANGED <<master_key, next_uuid, returned, conversation_history, chat>>

\* The backend's answers to the four queries of one unified view
UnifiedOutcomes ==
  {[j \in 1..4 |-> IF j = i THEN k ELSE "ok"] :
     i \in 0..4, k \in {"rejected", "down"}}

\* One call of CyborgDBClient.get_unified_records: its last call is a query
GetUnified ==
  \E patient_id \in PatientIds, outs \in UnifiedOutcomes :
    /\ LET r == get_unified_records(Session, master_key, patient_id, outs)
       IN /\ Install(r.cx)
          /\ last' = Last("query", r.raised, r.error)
    /\ UNCHANGED <<master_key, next_uuid, returned, conversation_history, chat>>

\* One request GET /api/records/{patient_id}: the store is not called
ApiGetUnified ==
  \E patient_id \in PatientIds :
    /\ api_get_unified_records(patient_id).status = "success"
    /\ UNCHANGED vars

\* The process restarts: CyborgDBClient.__init__ runs again on the same backend,
\* with the key in use given as master_key, or with none
Restart ==
  \E configured_key \in {0, master_key}, outcome \in {"ok", "rejected"} :
    /\ master_key' = NewMasterKey(configured_key, records)
    /\ Install(init_connection(Session, outcome))
    /\ last' = Last("init", FALSE, "")
    /\ UNCHANGED <<next_uuid, returned, conversation_history, chat>>

\* ---------------------------------------------------------- MedicalChatbot
MaxChats == 2

\* self.max_history_tokens
max_history_tokens == 4000

\* os.getenv("LLM_MODEL", "gpt-4")
model == "gpt-4"

\* What a patient may ask: a short question, and one of some 600 words
Queries(patient_id) ==
  {patient_id \o " asks briefly", patient_id \o " asks at length"}

AllQueries == UNION {Queries(patient_id) : patient_id \in PatientIds}

\* What the text-generation service answers in a call for a patient
Responses(patient_id) == {"answer to " \o patient_id}

\* The generation call failed (openai raised)
GenerationError == "<openai.error>"

\* len(content.split()) of the texts above
split_len(content) ==
  IF content \in {patient_id \o " asks at length" : patient_id \in PatientIds}
  THEN 600 ELSE 3

Message(role, content) == [role |-> role, content |-> content]

\* The three queries in a row, each with the default limit; the first that
\* raises ends the call. `trace` lists the calls made.
_get_patient_context(cx, key, patient_id, outs) ==
  LET appointments == query_encrypted_records(cx, key, patient_id, "appointment",
                                              DefaultLimit, outs[1])
      labs == query_encrypted_records(appointments.cx, key, patient_id, "lab_order",
                                      DefaultLimit, outs[2])
      prescriptions == query_encrypted_records(labs.cx, key, patient_id, "prescription",
                                               DefaultLimit, outs[3])
      t1 == <<"query appointment">>
      t2 == Append(t1, "query lab_order")
      t3 == Append(t2, "query prescription")
      failed(q, t) == [cx |-> q.cx, raised |-> TRUE, error |-> q.error, trace |-> t,
                       context |-> [appointments |-> <<>>, labs |-> <<>>,
                                    prescriptions |-> <<>>]]
  IN IF appointments.raised THEN failed(appointments, t1)
     ELSE IF labs.raised THEN failed(labs, t2)
     ELSE IF prescriptions.raised THEN failed(prescriptions, t3)
     ELSE [cx |-> prescriptions.cx, raised |-> FALSE, error |-> "", trace |-> t3,
           context |-> [appointments |-> appointments.results,
                        labs |-> labs.results,
                        prescriptions |-> prescriptions.results]]

\* The fixed instructions with the three counts filled in
_build_system_prompt(context) ==
  "You are a HIPAA-compliant medical assistant. Recent Appointments: "
    \o ToString(Len(context.appointments))
    \o " Active Lab Orders: " \o ToString(Len(context.labs))
    \o " Current Prescriptions: " \o ToString(Len(context.prescriptions))

\* [system prompt, *conversation_history, the query]
messages_for(history, system_prompt, query) ==
  <<Message("system", system_prompt)>> \o history \o <<Message("user", query)>>

\* openai.ChatCompletion.create: the service's answer, or a raise
_get_openai_response(messages, answer) ==
  [raised |-> answer = GenerationError, content |-> answer]

\* The dict _store_encrypted_conversation stores; no claim reads the timestamp
conversation_data(query, response) ==
  << <<"query", PyStr(query)>>, <<"response", PyStr(response)>>,
     <<"timestamp", PyStr("utcnow")>>, <<"model", PyStr(model)>> >>

_store_encrypted_conversation(cx, key, record_id, patient_id, query, response, oRec, oAud) ==
  store_encrypted_record(cx, key, record_id, "chat_interaction",
                         conversation_data(query, response), patient_id, oRec, oAud)

\* sum(len(msg["content"].split()) * 4 for msg in history)
RECURSIVE total_tokens(_)
total_tokens(history) ==
  IF history = <<>> THEN 0
  ELSE split_len(Head(history).content) * 4 + total_tokens(Tail(history))

\* while len > 2: pop(0) while the estimate exceeds the limit, else break
RECURSIVE _trim_conversation_history(_)
_trim_conversation_history(history) ==
  IF Len(history) > 2
  THEN IF total_tokens(history) > max_history_tokens
       THEN _trim_conversation_history(Tail(history))
       ELSE history
  ELSE history

\* What one process_patient_query call leaves and returns:
\*   status, response   the returned dict
\*   history            conversation_history afterwards
\*   trace              the calls made on the store and the service, in order
\*   generated          the text the service produced, if it did
\*   stored             the data handed to store_encrypted_record, if any
\*   store_returned     whether that store returned a record identifier
ChatResult(cx, status, response, history, trace, generated, stored, store_returned, last_call) ==
  [cx |-> cx, status |-> status, response |-> response, history |-> history,
   trace |-> trace, generated |-> generated, stored |-> stored,
   store_returned |-> store_returned, last |-> last_call]

\* A process_patient_query that updates the history before it stores
process_patient_query_history_first(cx, key, record_id, history, patient_id, query, outs, answer, oRec, oAud) ==
  LET context == _get_patient_context(cx, key, patient_id, outs)
      system_prompt == _build_system_prompt(context.context)
      messages == messages_for(history, system_prompt, query)
      response == _get_openai_response(messages, answer)
      updated == _trim_conversation_history(
                   history \o <<Message("user", query),
                                Message("assistant", response.content)>>)
      st == _store_encrypted_conversation(context.cx, key, record_id, patient_id,
                                          query, response.content, oRec, oAud)
      data == conversation_data(query, response.content)
  IN IF context.raised
     THEN ChatResult(context.cx, "error", None, history, context.trace, None, <<>>,
                     FALSE, Last("query", TRUE, context.error))
     ELSE IF response.raised
     THEN ChatResult(context.cx, "error", None, history,
                     Append(context.trace, "generate"), None, <<>>, FALSE,
                     Last("query", FALSE, ""))
     ELSE IF st.raised
     THEN ChatResult(st.cx, "error", None, updated,
                     context.trace \o <<"generate", "store">>, response.content, data,
                     FALSE, Last("store", TRUE, "psycopg2.Error"))
     ELSE ChatResult(st.cx, "success", response.content, updated,
                     context.trace \o <<"generate", "store">>, response.content, data,
                     TRUE, Last("store", FALSE, ""))

\* The try block runs to the first call that raises; `except Exception` turns
\* any raise into a returned {"status": "error"}
process_patient_query(cx, key, record_id, history, patient_id, query, outs, answer, oRec, oAud) ==
  LET context == _get_patient_context(cx, key, patient_id, outs)
      system_prompt == _build_system_prompt(context.context)
      messages == messages_for(history, system_prompt, query)
      response == _get_openai_response(messages, answer)
      st == _store_encrypted_conversation(context.cx, key, record_id, patient_id,
                                          query, response.content, oRec, oAud)
      data == conversation_data(query, response.content)
  IN IF context.raised
     THEN ChatResult(context.cx, "error", None, history, context.trace, None, <<>>,
                     FALSE, Last("query", TRUE, context.error))
     ELSE IF response.raised
     THEN ChatResult(context.cx, "error", None, history,
                     Append(context.trace, "generate"), None, <<>>, FALSE,
                     Last("query", FALSE, ""))
     ELSE IF st.raised
     THEN ChatResult(st.cx, "error", None, history,
                     context.trace \o <<"generate", "store">>, response.content, data,
                     FALSE, Last("store", TRUE, "psycopg2.Error"))
     ELSE ChatResult(st.cx, "success", response.content,
                     _trim_conversation_history(
                       history \o <<Message("user", query),
                                    Message("assistant", response.content)>>),
                     context.trace \o <<"generate", "store">>, response.content, data,
                     TRUE, Last("store", FALSE, ""))

\* POST /api/chat: the response is built from the message, then one store; a
\* raise becomes HTTP 500
medical_chat_data(message, response) ==
  << <<"message", PyStr(message)>>, <<"response", PyStr(response)>> >>

medical_chat(cx, key, record_id, history, patient_id, message, oRec, oAud) ==
  LET response == "HIPAA-compliant response to: " \o message
      data == medical_chat_data(message, response)
      st == store_encrypted_record(cx, key, record_id, "chat_interaction", data,
                                   patient_id, oRec, oAud)
  IN IF st.raised
     THEN ChatResult(st.cx, "error", None, history, <<"store">>, None, data, FALSE,
                     Last("store", TRUE, "psycopg2.Error"))
     ELSE ChatResult(st.cx, "success", response, history, <<"store">>, None, data,
                     TRUE, Last("store", FALSE, ""))

\* -------------------------------------------------------- chat operations
ContextOutcomes ==
  {[j \in 1..3 |-> IF j = i THEN k ELSE "ok"] :
     i \in 0..3, k \in {"rejected", "down"}}

InstallChat(op, patient_id, message, data, r) ==
  /\ Install(r.cx)
  /\ conversation_history' = r.history
  /\ chat' = [op |-> op, patient_id |-> patient_id, message |-> message,
              status |-> r.status, response |-> r.response, trace |-> r.trace,
              generated |-> r.generated, stored |-> r.stored]
  /\ last' = r.last
  /\ returned' = IF r.store_returned
                 THEN returned \cup {[record_id |-> next_uuid,
                                      record_type |-> "chat_interaction",
                                      patient_id |-> patient_id,
                                      data |-> data,
                                      key |-> master_key]}
                 ELSE returned
  /\ next_uuid' = IF r.store_returned THEN next_uuid + 1 ELSE next_uuid
  /\ UNCHANGED master_key

ProcessPatientQuery ==
  \E patient_id \in PatientIds, outs \in ContextOutcomes, o \in StoreOutcomes :
    \E query \in Queries(patient_id),
       answer \in Responses(patient_id) \cup {GenerationError} :
      /\ next_uuid <= MaxChats
      /\ InstallChat("process_patient_query", patient_id, query,
                     conversation_data(query, answer),
                     process_patient_query(Session, master_key, next_uuid,
                                           conversation_history, patient_id, query,
                                           outs, answer, o[1], o[2]))

MedicalChat ==
  \E patient_id \in PatientIds, o \in StoreOutcomes :
    \E message \in Queries(patient_id) :
      /\ next_uuid <= MaxChats
      /\ InstallChat("medical_chat", patient_id, message,
                     medical_chat_data(message,
                                       "HIPAA-compliant response to: " \o message),
                     medical_chat(Session, master_key, next_uuid,
                                  conversation_history, patient_id, message,
                                  o[1], o[2]))

Next == Store \/ Query \/ GetUnified \/ ApiGetUnified \/ Restart

Spec == Init /\ [][Next]_vars

\* The chatbot and the chat endpoint on a store of their own
ChatNext == ProcessPatientQuery \/ MedicalChat
ChatSpec == Init /\ [][ChatNext]_vars

\* ================================================================ claims
\* What a query of the current state returns when the backend accepts it
QueryNow(patient_id, record_type, limit) ==
  query_encrypted_records(Session, master_key, patient_id, record_type, limit, "ok")

RowsWithId(id) == {i \in 1..Len(records) : records[i].id = id}

StoreAuditsOf(id) ==
  {i \in 1..Len(audit_trail) :
     audit_trail[i].action = "STORE" /\ audit_trail[i].details.record_id = id}

\* C1 (as claimed): every store call that returned a record identifier has
\* exactly one audit entry with action STORE naming that identifier.
C1_AuditCompleteness ==
  \A r \in returned : Cardinality(StoreAuditsOf(r.record_id)) = 1

\* C2 (as claimed): once store(T, P, pid) has returned an identifier, a query
\* (pid, T) by the same client with a limit above the number of records, when
\* it returns, returns a record with that identifier, type T and payload P.
C2_StoreThenQuery ==
  \A r \in returned :
    r.key = master_key =>
      LET q == QueryNow(r.patient_id, r.record_type, Len(records) + 1)
      IN ~q.raised =>
           \E i \in 1..Len(q.results) :
             /\ q.results[i].id = r.record_id
             /\ q.results[i].record_type = r.record_type
             /\ q.results[i].data = r.data

\* C3 (as claimed): a query (pid, T) with a record_type that is given, the
\* empty string included, returns only records of patient pid and of type T.
C3_FilterExact ==
  \A pid \in PatientIds, T \in QueryTypes \ {None}, L \in Limits :
    LET q == QueryNow(pid, T, L)
    IN ~q.raised =>
         \A i \in 1..Len(q.results) :
           /\ q.results[i].record_type = T
           /\ \A j \in RowsWithId(q.results[i].id) : records[j].patient_id = pid

\* The rows a query (pid, T) is about: the patient's, of type T when a type
\* filter is in force
Matching(pid, T) ==
  {i \in 1..Len(records) :
     /\ records[i].patient_id = pid
     /\ (T \in {None, ""} \/ records[i].record_type = T)}

\* C4: a query with limit L over n matching records returns min(L, n) of them,
\* each once, newest first, and no matching record left out is newer than a
\* returned one.
C4_OrderingAndLimit ==
  \A pid \in PatientIds, T \in QueryTypes, L \in Limits :
    LET q == QueryNow(pid, T, L)
        n == Cardinality(Matching(pid, T))
        ids == {q.results[i].id : i \in 1..Len(q.results)}
    IN ~q.raised =>
         /\ Len(q.results) = IF L < n THEN L ELSE n
         /\ Cardinality(ids) = Len(q.results)
         /\ \A i \in 1..Len(q.results) :
              \E j \in Matching(pid, T) :
                /\ records[j].id = q.results[i].id
                /\ records[j].created_at = q.results[i].created_at
         /\ \A i, j \in 1..Len(q.results) :
              i < j => q.results[i].created_at > q.results[j].created_at
         /\ \A j \in Matching(pid, T) :
              records[j].id \notin ids =>
                \A i \in 1..Len(q.results) :
                  q.results[i].created_at > records[j].created_at

\* C4's case: a query has just returned, and some query has more matching
\* records than its limit
C4_Witness ==
  /\ last = Last("query", FALSE, "")
  /\ \E pid \in PatientIds, T \in QueryTypes, L \in Limits :
       /\ L >= 1
       /\ Cardinality(Matching(pid, T)) > L
       /\ Len(QueryNow(pid, T, L).results) = L

\* C5: no step changes or removes a row of encrypted_records; the table only
\* grows.
C5_Immutable ==
  [][\A i \in 1..Len(records) :
       i <= Len(records') /\ records'[i] = records[i]]_vars

\* C5's case: a store has just failed and rolled back while a record exists
C5_Witness ==
  /\ Len(records) >= 1
  /\ last = Last("store", TRUE, "psycopg2.Error")
  /\ ~conn.closed

\* The rows the SELECT of a query hands to the decryption loop
Selected(pid, T, L) == select_encrypted_records(records, pid, T, L)

Unreadable(rows) ==
  \E i \in 1..Len(rows) : rows[i].encrypted_data.key # master_key

\* C6: a query whose SELECT returns a row encrypted under another key than the
\* active one raises InvalidToken, an error no backend failure raises; a query
\* that returns has one result per selected row, each with the payload that
\* was stored.
C6_DecryptionFailureReported ==
  \A pid \in PatientIds, T \in QueryTypes, L \in Limits :
    LET q == QueryNow(pid, T, L)
        rows == Selected(pid, T, L)
    IN (~conn.closed /\ conn.status # "INERROR") =>
         /\ Unreadable(rows) => q.raised /\ q.error = "InvalidToken"
         /\ ~q.raised =>
              /\ Len(q.results) = Len(rows)
              /\ \A i \in 1..Len(rows) :
                   /\ q.results[i].id = rows[i].id
                   /\ rows[i].encrypted_data.key = master_key
                   /\ \E r \in returned :
                        r.record_id = rows[i].id /\ r.data = q.results[i].data

\* C6's case: a query has just raised InvalidToken
C6_Witness ==
  /\ last = Last("query", TRUE, "InvalidToken")
  /\ \E pid \in PatientIds, T \in QueryTypes, L \in Limits :
       Unreadable(Selected(pid, T, L))

NoTraceOf(cx, id) ==
  /\ \A i \in 1..Len(cx.records) : cx.records[i].id # id
  /\ \A i \in 1..Len(cx.pend_records) : cx.pend_records[i].id # id
  /\ \A i \in 1..Len(cx.audit_trail) : cx.audit_trail[i].details.record_id # id
  /\ \A i \in 1..Len(cx.pend_audit) : cx.pend_audit[i].details.record_id # id

\* C7: a store call whose record insert the backend rejects, or cannot be
\* reached for, raises, and leaves neither a record nor an audit entry of its
\* identifier, committed or pending; and after any store call that raised no
\* row carries the identifier it drew.
C7_StoreFailureLeavesNoTrace ==
  /\ \A T \in StoreTypes, pid \in StorePatientIds, o \in StoreOutcomes :
       LET r == store_encrypted_record(Session, master_key, next_uuid, T,
                                       Payload(T), pid, o[1], o[2])
       IN (o[1] # "ok" \/ conn.closed \/ conn.status = "INERROR") =>
            r.raised /\ NoTraceOf(r.cx, next_uuid)
  /\ (last.op = "store" /\ last.raised) =>
       NoTraceOf([Session EXCEPT !.raised = TRUE], next_uuid)

\* C7's case: a store has just raised, with records of earlier calls in place
C7_Witness ==
  /\ last = Last("store", TRUE, "psycopg2.Error")
  /\ Len(records) >= 1
  /\ Len(audit_trail) >= 1

AllOk == [j \in 1..4 |-> "ok"]

\* C8 (as claimed): get_unified_records and GET /api/records/{patient_id}
\* both return, under appointments, labs, prescriptions and billing, what the
\* four queries return.
C8_UnifiedEqualsQueries ==
  \A pid \in PatientIds :
    LET a == QueryNow(pid, "appointment", DefaultLimit)
        l == QueryNow(pid, "lab_order", DefaultLimit)
        p == QueryNow(pid, "prescription", DefaultLimit)
        b == QueryNow(pid, "billing", DefaultLimit)
        four == [appointments |-> a.results, labs |-> l.results,
                 prescriptions |-> p.results, billing |-> b.results]
    IN (~a.raised /\ ~l.raised /\ ~p.raised /\ ~b.raised) =>
         /\ get_unified_records(Session, master_key, pid, AllOk).records = four
         /\ api_get_unified_records(pid).records = four

\* C9 (as claimed): every persisted record has a non-empty patient_id and a
\* record_type of the enumeration (models.RecordType and discharge_summary).
C9_WellFormedRecords ==
  \A i \in 1..Len(records) :
    /\ records[i].patient_id \notin {"", None}
    /\ records[i].record_type \in RecordType \cup {"discharge_summary"}

\* C10 (as claimed): whatever the order of the store calls, each call that
\* returned has its own record persisted, under an identifier no other call
\* returned.
C10_ConcurrentStoresSafe ==
  /\ \A r \in returned : Cardinality(RowsWithId(r.record_id)) = 1
  /\ \A r1, r2 \in returned : r1.record_id = r2.record_id => r1 = r2

\* C13 (as claimed): after a query call that raised, with the connection still
\* open, every store and every query the backend accepts succeeds: none fails
\* with a database error left behind by the earlier query.
C13_FailedQueryDoesNotPoison ==
  (last.op = "query" /\ last.raised /\ ~conn.closed) =>
    /\ \A T \in StoreTypes, pid \in PatientIds :
         ~store_encrypted_record(Session, master_key, next_uuid, T, Payload(T),
                                 pid, "ok", "ok").raised
    /\ \A pid \in PatientIds, T \in QueryTypes, L \in Limits :
         QueryNow(pid, T, L).error # "psycopg2.Error"

\* ------------------------------------------------------------ chat claims
ChatSteps ==
  <<"query appointment", "query lab_order", "query prescription", "generate",
    "store">>

InTrace(step) == \E i \in 1..Len(chat.trace) : chat.trace[i] = step

StoredHolds(text) ==
  \E i \in 1..Len(chat.stored) : chat.stored[i][2] = PyStr(text)

\* The ordering of one chat operation, for the operations in `ops`
ChatOrdering(ops) ==
  chat.op \in ops =>
    /\ \E n \in 1..Len(ChatSteps) : chat.trace = SubSeq(ChatSteps, 1, n)
    /\ InTrace("store") => chat.generated # None
    /\ chat.status = "success" =>
         /\ chat.trace = ChatSteps
         /\ StoredHolds(chat.message)
         /\ StoredHolds(chat.generated)
         /\ chat.response = chat.generated

\* C11 (as claimed): every chat operation, of the chatbot and of the chat
\* endpoint, makes the three context queries in order, then the generation
\* call, then one store of the message and the generated text, and returns the
\* generated text; it stores only after a generation that succeeded.
C11_ChatOperationOrdering ==
  ChatOrdering({"process_patient_query", "medical_chat"})

\* The texts of a patient's earlier calls: their queries and the answers
TextsOf(patient_id) == Queries(patient_id) \cup Responses(patient_id)

\* The messages a call for `patient_id` sends to the service now, if its
\* context queries succeed
MessagesNow(patient_id, query) ==
  LET context == _get_patient_context(Session, master_key, patient_id,
                                      [j \in 1..3 |-> "ok"])
  IN IF context.raised THEN <<>>
     ELSE messages_for(conversation_history,
                       _build_system_prompt(context.context), query)

\* C12 (as claimed): the messages sent to the text-generation service in a
\* call for one patient hold no query text and no response text of an earlier
\* call made for a different patient.
C12_CrossPatientIsolation ==
  \A B \in PatientIds :
    \A A \in PatientIds \ {B}, query \in Queries(B) :
      LET messages == MessagesNow(B, query)
      IN \A i \in 1..Len(messages) : messages[i].content \notin TextsOf(A)

\* Complete exchanges: even length, user then assistant, from a user message
CompleteExchanges(history) ==
  /\ Len(history) % 2 = 0
  /\ \A i \in 1..Len(history) :
       history[i].role = IF i % 2 = 1 THEN "user" ELSE "assistant"

\* At most two messages, or an estimate within the limit
WithinTokenLimit(history) ==
  Len(history) <= 2 \/ total_tokens(history) <= max_history_tokens

\* C14 (as claimed): after every process_patient_query call the conversation
\* history is a sequence of complete exchanges, and it holds at most 2 messages
\* or its estimated token total is at most max_history_tokens.
C14_HistoryWellFormedAndBounded ==
  /\ CompleteExchanges(conversation_history)
  /\ WithinTokenLimit(conversation_history)

\* C15: a process_patient_query call returns a result whose status is
\* "success" or "error"; whenever it failed at some step (a context query, the
\* generation call or the store) the status is "error" and
\* conversation_history is exactly what it was before the call.
C15_FailedChatChangesNothing ==
  [][chat'.op = "process_patient_query" =>
       /\ chat'.status \in {"success", "error"}
       /\ chat'.trace # ChatSteps => chat'.status = "error"
       /\ chat'.status = "error" => conversation_history' = conversation_history]_vars

\* A call failed at its store, after generation, with earlier exchanges held
C15_Witness ==
  /\ chat.op = "process_patient_query"
  /\ chat.status = "error"
  /\ chat.trace = ChatSteps
  /\ conversation_history # <<>>

====
